---- MODULE Spec2Model ----
(***************************************************************************)
(* A model of the chat-completion inference driver                         *)
(*   getting-started/inference/local_inference/chat_completion/            *)
(*   chat_completion.py  (function main).                                  *)
(*                                                                         *)
(* The driver is a sequential pipeline: resolve the dialogs (prompt file   *)
(* or stdin), seed the RNG, load the model and the tokenizer, then for     *)
(* each dialog: screen the first turn, generate, screen the output, print. *)
(* The external collaborators (checkers, model, tokenizer) are opaque: a   *)
(* checker's verdict on a text is a nondeterministic boolean, a generation *)
(* is recorded with the arguments it was called with.                      *)
(* Python's 0-based idx is kept; sequences here are 1-based, so the code's *)
(* dialogs[idx] is dialogs[idx + 1].                                       *)
(***************************************************************************)
EXTENDS Integers, Sequences, FiniteSets, TLC

(* ---------------------------------------------------------------------- *)
(* Bounds                                                                  *)
(* ---------------------------------------------------------------------- *)
MaxDialogs == 2

(* ---------------------------------------------------------------------- *)
(* Values                                                                  *)
(* ---------------------------------------------------------------------- *)
None == "None"

NoExit == 0 - 1

\* a text: what a checker screens and what print shows
UserText(s) == [kind |-> "user", body |-> s, draws |-> 0]

NoText == [kind |-> "none", body |-> "", draws |-> 0]

Turn(r, s) == [role |-> r, content |-> UserText(s)]

\* the dialogs a prompt file or stdin may hold; the second one has a first
\* turn that differs from its last turn
DialogPool ==
    { <<Turn("user", "hello")>>,
      <<Turn("user", "attack"), Turn("assistant", "no"), Turn("user", "hello")>> }

DialogLists == UNION { [1..n -> DialogPool] : n \in 0..MaxDialogs }

\* what is piped on stdin: nothing, text that is not JSON, or a JSON list
StdinEmpty == [kind |-> "empty", val |-> <<>>]

StdinGarbage == [kind |-> "garbage", val |-> <<>>]

StdinJson(ds) == [kind |-> "json", val |-> ds]

StdinTexts == {StdinEmpty, StdinGarbage} \cup { StdinJson(ds) : ds \in DialogLists }

\* json.loads on the joined stdin lines: "" and non-JSON text raise
JsonLoads(text) ==
    IF text.kind = "json" THEN [ok |-> TRUE, val |-> text.val]
                          ELSE [ok |-> FALSE, val |-> <<>>]

\* the keyword arguments of main with their defaults
DefaultArgs ==
    [ model_name |-> "model",
      peft_model |-> None,
      quantization |-> None,
      max_new_tokens |-> 256,
      min_new_tokens |-> 0,
      prompt_file |-> None,
      seed |-> 42,
      do_sample |-> TRUE,
      use_cache |-> TRUE,
      top_p |-> 1,
      temperature |-> 1,
      top_k |-> 50,
      repetition_penalty |-> 1,
      length_penalty |-> 1,
      enable_azure_content_safety |-> FALSE,
      enable_sensitive_topics |-> FALSE,
      enable_saleforce_content_safety |-> TRUE,
      use_fast_kernels |-> FALSE,
      enable_llamaguard_content_safety |-> FALSE ]


(* ---------------------------------------------------------------------- *)
(* Inputs of a run: the command line and the environment                   *)
(* ---------------------------------------------------------------------- *)
PromptFile == "prompts.json"

MissingFile == "missing.json"

\* the environment: does the prompt file exist, what does it hold, is stdin
\* a terminal, what is piped on it.  A file that does not exist holds
\* nothing and a terminal pipes nothing.
Env(exists, file, isatty, stdin) ==
    [exists |-> exists, file |-> file, isatty |-> isatty, stdin |-> stdin]

\* runs that vary where the dialogs come from (default flags and sampling)
SourceRuns ==
    { <<[DefaultArgs EXCEPT !.prompt_file = PromptFile], Env(TRUE, f, FALSE, t)>> :
          f \in DialogLists, t \in StdinTexts }
    \cup { <<[DefaultArgs EXCEPT !.prompt_file = PromptFile], Env(TRUE, f, TRUE, StdinEmpty)>> :
          f \in DialogLists }
    \cup { <<[DefaultArgs EXCEPT !.prompt_file = MissingFile], Env(FALSE, <<>>, FALSE, t)>> :
          t \in StdinTexts }
    \cup { <<[DefaultArgs EXCEPT !.prompt_file = MissingFile], Env(FALSE, <<>>, TRUE, StdinEmpty)>> }
    \cup { <<DefaultArgs, Env(FALSE, <<>>, FALSE, t)>> : t \in StdinTexts }
    \cup { <<DefaultArgs, Env(FALSE, <<>>, TRUE, StdinEmpty)>> }

\* runs that vary the enabled checkers, with the dialogs from either source
SafetyRuns ==
    { <<[DefaultArgs EXCEPT !.prompt_file = IF fromFile THEN PromptFile ELSE None,
                            !.enable_azure_content_safety = az,
                            !.enable_sensitive_topics = st,
                            !.enable_saleforce_content_safety = sf,
                            !.enable_llamaguard_content_safety = lg],
        IF fromFile THEN Env(TRUE, ds, TRUE, StdinEmpty)
                    ELSE Env(FALSE, <<>>, FALSE, StdinJson(ds))>> :
          fromFile \in BOOLEAN, az \in BOOLEAN, st \in BOOLEAN, sf \in BOOLEAN,
          lg \in BOOLEAN, ds \in DialogLists }

\* runs that vary the seed, the adapter and the sampling parameters
ParamRuns ==
    { <<[DefaultArgs EXCEPT !.prompt_file = PromptFile,
                            !.seed = sd,
                            !.peft_model = pm,
                            !.max_new_tokens = mx,
                            !.min_new_tokens = mn,
                            !.do_sample = smp],
        Env(TRUE, ds, TRUE, StdinEmpty)>> :
          sd \in {42, 7}, pm \in {None, "adapter"}, mx \in {256, 16},
          mn \in {0, 5}, smp \in BOOLEAN, ds \in DialogLists }

Runs == SourceRuns \cup SafetyRuns \cup ParamRuns

(* ---------------------------------------------------------------------- *)
(* State                                                                   *)
(* ---------------------------------------------------------------------- *)
VARIABLES
    args,            \* the arguments of main
    env,             \* the file system and stdin the process sees
    pc,              \* the position of the single thread of control
    exitCode,        \* the exit status, NoExit while running
    dialogs,         \* main's local: the resolved dialog list
    rng,             \* torch's global RNG: the seed and the draws since
    model,           \* main's local: the model handle
    tokenizer,       \* main's local: the tokenizer handle
    chats,           \* main's local: the templated dialogs
    idx,             \* the loop index
    safety_checker,  \* main's local: the checkers of this iteration
    safety_results,  \* main's local: the results of the last screening
    are_safe,        \* main's local: the aggregate verdict
    output_text,     \* main's local: the decoded output
    printed,         \* what the process wrote to stdout
    trace,           \* the per-dialog steps taken, in order
    genCalls,        \* the calls of model.generate, in order
    calls            \* how often stdin, the file, the seeding and the loaders ran

vars == <<args, env, pc, exitCode, dialogs, rng, model, tokenizer, chats, idx,
          safety_checker, safety_results, are_safe, output_text, printed,
          trace, genCalls, calls>>

NoModel == [name |-> None, quantization |-> None, fast |-> FALSE, peft |-> None]

NoRng == [seed |-> 0, draws |-> 0]

NoCalls == [stdin |-> 0, file |-> 0, seed_device |-> 0, seed |-> 0,
            load_model |-> 0, load_peft |-> 0, tokenizer |-> 0]

Init ==
    /\ \E r \in Runs : args = r[1] /\ env = r[2]
    /\ pc = "start"
    /\ exitCode = NoExit
    /\ dialogs = <<>>
    /\ rng = NoRng
    /\ model = NoModel
    /\ tokenizer = None
    /\ chats = <<>>
    /\ idx = 0
    /\ safety_checker = <<>>
    /\ safety_results = <<>>
    /\ are_safe = TRUE
    /\ output_text = NoText
    /\ printed = <<>>
    /\ trace = <<>>
    /\ genCalls = <<>>
    /\ calls = NoCalls

(* ---------------------------------------------------------------------- *)
(* Helpers                                                                 *)
(* ---------------------------------------------------------------------- *)
\* print(<fixed string>)
Line(s) == [kind |-> "line", str |-> s, text |-> NoText]

\* print of a text under a heading
Shown(k, t) == [kind |-> k, str |-> "", text |-> t]

Separator == Line("==================================")

\* a step of the loop for dialog i; verdicts are those of a screening
Event(e, i, v) == [ev |-> e, idx |-> i, verdicts |-> v]

\* sys.exit(code), or an exception that reaches the top level (status 1)
Exit(code) ==
    /\ pc' = "exit"
    /\ exitCode' = code

\* read_dialogs_from_file: the dialog list the file holds
read_dialogs_from_file(path) == env.file

\* get_safety_checker: the enabled checkers, in a fixed order
get_safety_checker(az, st, sf, lg) ==
    (IF az THEN <<"AzureSaftyChecker">> ELSE <<>>)
    \o (IF st THEN <<"AuditNLGSensitiveTopics">> ELSE <<>>)
    \o (IF sf THEN <<"SalesforceSafetyChecker">> ELSE <<>>)
    \o (IF lg THEN <<"LlamaGuardSafetyChecker">> ELSE <<>>)

\* one checker's result on a text: (method, is_safe, report)
Check(method, text, verdict) ==
    <<method, verdict, [by |-> method, about |-> text, safe |-> verdict]>>

\* a variant that stops at the first unsafe verdict
RunCheckersShortCircuit(checkers, text, verdicts) ==
    LET firstBad == IF \E i \in 1..Len(checkers) : ~verdicts[i]
                    THEN CHOOSE i \in 1..Len(checkers) :
                             /\ ~verdicts[i]
                             /\ \A j \in 1..(i - 1) : verdicts[j]
                    ELSE Len(checkers)
    IN  [i \in 1..firstBad |-> Check(checkers[i], text, verdicts[i])]

\* [check(text) for check in safety_checker]: every checker is called, in
\* order; verdicts[i] is what checker i answers
RunCheckers(checkers, text, verdicts) ==
    [i \in 1..Len(checkers) |-> Check(checkers[i], text, verdicts[i])]

\* a variant with any in the place of all
AnySafe(results) == results = <<>> \/ \E i \in 1..Len(results) : results[i][2]

\* all([r[1] for r in safety_results])
AllSafe(results) == \A i \in 1..Len(results) : results[i][2]

\* a variant that reports every checker, failing or not
RECURSIVE AllReports(_)
AllReports(results) ==
    IF results = <<>> THEN <<>>
    ELSE <<[kind |-> "method", str |-> Head(results)[1], text |-> NoText],
           [kind |-> "report", str |-> Head(results)[3].by, text |-> Head(results)[3].about]>>
         \o AllReports(Tail(results))

\* for method, is_safe, report in safety_results:
\*     if not is_safe: print(method); print(report)
RECURSIVE FailingReports(_)
FailingReports(results) ==
    IF results = <<>> THEN <<>>
    ELSE (IF ~Head(results)[2]
          THEN <<[kind |-> "method", str |-> Head(results)[1], text |-> NoText],
                 [kind |-> "report", str |-> Head(results)[3].by,
                  text |-> Head(results)[3].about]>>
          ELSE <<>>)
         \o FailingReports(Tail(results))

\* tokenizer.apply_chat_template(dialog): the token ids of the whole dialog
ApplyChatTemplate(dialog) == [template |-> "chat", turns |-> dialog]

\* the keyword arguments main passes to model.generate
GenerateKwargs(a) ==
    [ max_new_tokens |-> a.max_new_tokens,
      do_sample |-> a.do_sample,
      top_p |-> a.top_p,
      temperature |-> a.temperature,
      use_cache |-> a.use_cache,
      top_k |-> a.top_k,
      repetition_penalty |-> a.repetition_penalty,
      length_penalty |-> a.length_penalty ]

\* the RNG after one generation: sampling draws from it, greedy does not
RngAfterGenerate(r, kwargs) ==
    IF kwargs.do_sample THEN [r EXCEPT !.draws = @ + 1] ELSE r

\* tokenizer.decode(outputs[0]): the text of the prompt's continuation
Decode(chat, r) ==
    [kind |-> "model", body |-> chat.turns[Len(chat.turns)].content.body,
     draws |-> r.draws]


(* ---------------------------------------------------------------------- *)
(* Input resolution                                                        *)
(* ---------------------------------------------------------------------- *)
\* a variant that takes the dialogs from stdin when something is piped
ReadPromptFilePreferStdin ==
    /\ pc = "start"
    /\ args.prompt_file # None
    /\ IF ~env.exists
       THEN /\ Exit(1)
            /\ UNCHANGED <<dialogs, printed, calls>>
       ELSE /\ IF ~env.isatty /\ JsonLoads(env.stdin).ok
               THEN /\ dialogs' = JsonLoads(env.stdin).val
                    /\ calls' = [calls EXCEPT !.stdin = @ + 1]
               ELSE /\ dialogs' = read_dialogs_from_file(args.prompt_file)
                    /\ calls' = [calls EXCEPT !.file = @ + 1]
            /\ printed' = printed \o <<Line("User dialogs:"), Separator>>
            /\ pc' = "seed"
            /\ UNCHANGED exitCode
    /\ UNCHANGED <<args, env, rng, model, tokenizer, chats, idx, safety_checker,
                   safety_results, are_safe, output_text, trace, genCalls>>

\* if prompt_file is not None: assert it exists, read the dialogs from it
ReadPromptFile ==
    /\ pc = "start"
    /\ args.prompt_file # None
    /\ IF ~env.exists
       THEN /\ Exit(1)
            /\ UNCHANGED <<dialogs, printed, calls>>
       ELSE /\ dialogs' = read_dialogs_from_file(args.prompt_file)
            /\ calls' = [calls EXCEPT !.file = @ + 1]
            /\ printed' = printed \o <<Line("User dialogs:"), Separator>>
            /\ pc' = "seed"
            /\ UNCHANGED exitCode
    /\ UNCHANGED <<args, env, rng, model, tokenizer, chats, idx, safety_checker,
                   safety_results, are_safe, output_text, trace, genCalls>>

\* a variant that goes on with an empty list when the JSON does not parse
ReadStdinLenient ==
    /\ pc = "start"
    /\ args.prompt_file = None
    /\ ~env.isatty
    /\ calls' = [calls EXCEPT !.stdin = @ + 1]
    /\ dialogs' = JsonLoads(env.stdin).val
    /\ printed' = printed \o <<Line("User dialogs:"), Separator>>
    /\ pc' = "seed"
    /\ UNCHANGED exitCode
    /\ UNCHANGED <<args, env, rng, model, tokenizer, chats, idx, safety_checker,
                   safety_results, are_safe, output_text, trace, genCalls>>

\* elif not sys.stdin.isatty(): read stdin, parse it as JSON or exit(1)
ReadStdin ==
    /\ pc = "start"
    /\ args.prompt_file = None
    /\ ~env.isatty
    /\ calls' = [calls EXCEPT !.stdin = @ + 1]
    /\ IF JsonLoads(env.stdin).ok
       THEN /\ dialogs' = JsonLoads(env.stdin).val
            /\ printed' = printed \o <<Line("User dialogs:"), Separator>>
            /\ pc' = "seed"
            /\ UNCHANGED exitCode
       ELSE /\ printed' = printed \o <<Line("Could not parse json from stdin.")>>
            /\ Exit(1)
            /\ UNCHANGED dialogs
    /\ UNCHANGED <<args, env, rng, model, tokenizer, chats, idx, safety_checker,
                   safety_results, are_safe, output_text, trace, genCalls>>

\* else: print("No user prompt provided. Exiting."); sys.exit(1)
NoInput ==
    /\ pc = "start"
    /\ args.prompt_file = None
    /\ env.isatty
    /\ printed' = printed \o <<Line("No user prompt provided. Exiting.")>>
    /\ Exit(1)
    /\ UNCHANGED <<args, env, dialogs, rng, model, tokenizer, chats, idx,
                   safety_checker, safety_results, are_safe, output_text, trace,
                   genCalls, calls>>

(* ---------------------------------------------------------------------- *)
(* Seeding and loading                                                     *)
(* ---------------------------------------------------------------------- *)
\* torch.xpu/cuda.manual_seed(seed); torch.manual_seed(seed)
SetSeeds ==
    /\ pc = "seed"
    /\ rng' = [seed |-> args.seed, draws |-> 0]
    /\ calls' = [calls EXCEPT !.seed_device = @ + 1, !.seed = @ + 1]
    /\ pc' = "load"
    /\ UNCHANGED <<args, env, exitCode, dialogs, model, tokenizer, chats, idx,
                   safety_checker, safety_results, are_safe, output_text, printed,
                   trace, genCalls>>

\* load_model(model_name, quantization, use_fast_kernels)
load_model(name, quantization, fast) ==
    [name |-> name, quantization |-> quantization, fast |-> fast, peft |-> None]

\* load_peft_model(model, peft_model)
load_peft_model(m, peft) == [m EXCEPT !.peft = peft]

\* model = load_model(...); the adapter when given; the tokenizer; the chats
LoadModel ==
    /\ pc = "load"
    /\ model' = IF args.peft_model # None
                THEN load_peft_model(load_model(args.model_name, args.quantization,
                                                args.use_fast_kernels),
                                     args.peft_model)
                ELSE load_model(args.model_name, args.quantization,
                                args.use_fast_kernels)
    /\ tokenizer' = args.model_name
    /\ calls' = [calls EXCEPT !.load_model = @ + 1,
                              !.load_peft = IF args.peft_model # None THEN @ + 1 ELSE @,
                              !.tokenizer = @ + 1]
    /\ chats' = [i \in 1..Len(dialogs) |-> ApplyChatTemplate(dialogs[i])]
    /\ idx' = 0
    /\ pc' = "loop"
    /\ UNCHANGED <<args, env, exitCode, dialogs, rng, safety_checker,
                   safety_results, are_safe, output_text, printed, trace, genCalls>>


(* ---------------------------------------------------------------------- *)
(* The dialog loop                                                         *)
(* ---------------------------------------------------------------------- *)
\* for idx, chat in enumerate(chats): build the checkers, screen the first
\* turn's content of dialogs[idx]
InputCheck ==
    /\ pc = "loop"
    /\ idx < Len(chats)
    /\ LET checkers == get_safety_checker(args.enable_azure_content_safety,
                                          args.enable_sensitive_topics,
                                          args.enable_saleforce_content_safety,
                                          args.enable_llamaguard_content_safety)
       IN  \E verdicts \in [1..Len(checkers) -> BOOLEAN] :
             LET results == RunCheckers(checkers, dialogs[idx + 1][1].content, verdicts)
             IN  /\ safety_checker' = checkers
                 /\ safety_results' = results
                 /\ are_safe' = AllSafe(results)
                 /\ trace' = Append(trace, Event("INPUT_CHECK", idx, verdicts))
    /\ pc' = "input_checked"
    /\ UNCHANGED <<args, env, exitCode, dialogs, rng, model, tokenizer, chats,
                   idx, output_text, printed, genCalls, calls>>

\* a variant that leaves out the generation of a safe prompt
InputSafeSkip ==
    /\ pc = "input_checked"
    /\ are_safe
    /\ printed' = printed \o <<Line("User prompt deemed safe."),
                               Shown("prompt", dialogs[idx + 1][1].content),
                               Separator>>
    /\ idx' = idx + 1
    /\ pc' = "loop"
    /\ UNCHANGED <<args, env, exitCode, dialogs, rng, model, tokenizer, chats,
                   safety_checker, safety_results, are_safe, output_text,
                   trace, genCalls, calls>>

\* if are_safe: print the prompt and go on to the generation
InputSafe ==
    /\ pc = "input_checked"
    /\ are_safe
    /\ printed' = printed \o <<Line("User prompt deemed safe."),
                               Shown("prompt", dialogs[idx + 1][1].content),
                               Separator>>
    /\ pc' = "generate"
    /\ UNCHANGED <<args, env, exitCode, dialogs, rng, model, tokenizer, chats,
                   idx, safety_checker, safety_results, are_safe, output_text,
                   trace, genCalls, calls>>

\* a variant that skips the unsafe dialog and goes on with the next one
InputUnsafeSkip ==
    /\ pc = "input_checked"
    /\ ~are_safe
    /\ printed' = printed \o <<Line("User prompt deemed unsafe.")>>
                          \o FailingReports(safety_results)
                          \o <<Line("Skipping the inferece as the prompt is not safe.")>>
    /\ trace' = Append(trace, Event("UNSAFE_INPUT_ABORT", idx, <<>>))
    /\ idx' = idx + 1
    /\ pc' = "loop"
    /\ UNCHANGED <<args, env, exitCode, dialogs, rng, model, tokenizer, chats,
                   safety_checker, safety_results, are_safe, output_text,
                   genCalls, calls>>

\* else: print the failing checkers' method and report; sys.exit(1)
InputUnsafe ==
    /\ pc = "input_checked"
    /\ ~are_safe
    /\ printed' = printed \o <<Line("User prompt deemed unsafe.")>>
                          \o FailingReports(safety_results)
                          \o <<Line("Skipping the inferece as the prompt is not safe.")>>
    /\ trace' = Append(trace, Event("UNSAFE_INPUT_ABORT", idx, <<>>))
    /\ Exit(1)
    /\ UNCHANGED <<args, env, dialogs, rng, model, tokenizer, chats, idx,
                   safety_checker, safety_results, are_safe, output_text,
                   genCalls, calls>>

\* a variant that seeds the RNG again before every generation
GenerateReseed ==
    /\ pc = "generate"
    /\ LET chat == chats[idx + 1]
           kwargs == GenerateKwargs(args)
           seeded == [seed |-> args.seed, draws |-> 0]
       IN  /\ genCalls' = Append(genCalls,
                                 [idx |-> idx, input_ids |-> chat, kwargs |-> kwargs,
                                  model |-> model, rng |-> seeded,
                                  rngAfter |-> RngAfterGenerate(seeded, kwargs)])
           /\ rng' = RngAfterGenerate(seeded, kwargs)
           /\ output_text' = Decode(chat, RngAfterGenerate(seeded, kwargs))
    /\ trace' = Append(trace, Event("GENERATE", idx, <<>>))
    /\ calls' = [calls EXCEPT !.seed_device = @ + 1, !.seed = @ + 1]
    /\ pc' = "output_check"
    /\ UNCHANGED <<args, env, exitCode, dialogs, model, tokenizer, chats, idx,
                   safety_checker, safety_results, are_safe, printed>>

\* tokens = torch.tensor(chat); outputs = model.generate(...);
\* output_text = tokenizer.decode(outputs[0])
Generate ==
    /\ pc = "generate"
    /\ LET chat == chats[idx + 1]
           kwargs == GenerateKwargs(args)
       IN  /\ genCalls' = Append(genCalls,
                                 [idx |-> idx, input_ids |-> chat, kwargs |-> kwargs,
                                  model |-> model, rng |-> rng,
                                  rngAfter |-> RngAfterGenerate(rng, kwargs)])
           /\ rng' = RngAfterGenerate(rng, kwargs)
           /\ output_text' = Decode(chat, RngAfterGenerate(rng, kwargs))
    /\ trace' = Append(trace, Event("GENERATE", idx, <<>>))
    /\ pc' = "output_check"
    /\ UNCHANGED <<args, env, exitCode, dialogs, model, tokenizer, chats, idx,
                   safety_checker, safety_results, are_safe, printed, calls>>

\* safety_results = [check(output_text) for check in safety_checker]
OutputCheck ==
    /\ pc = "output_check"
    /\ \E verdicts \in [1..Len(safety_checker) -> BOOLEAN] :
         LET results == RunCheckers(safety_checker, output_text, verdicts)
         IN  /\ safety_results' = results
             /\ are_safe' = AllSafe(results)
             /\ trace' = Append(trace, Event("OUTPUT_CHECK", idx, verdicts))
    /\ pc' = "output_checked"
    /\ UNCHANGED <<args, env, exitCode, dialogs, rng, model, tokenizer, chats,
                   idx, safety_checker, output_text, printed, genCalls, calls>>

\* a variant that treats an unsafe output like an unsafe input
ReportOutputAbort ==
    /\ pc = "output_checked"
    /\ IF are_safe
       THEN /\ printed' = printed \o <<Line("User input and model output deemed safe."),
                                       Shown("output", output_text),
                                       Separator>>
            /\ trace' = Append(trace, Event("DONE", idx, <<>>))
            /\ idx' = idx + 1
            /\ pc' = "loop"
            /\ UNCHANGED exitCode
       ELSE /\ printed' = printed \o <<Line("Model output deemed unsafe.")>>
                                  \o FailingReports(safety_results)
            /\ Exit(1)
            /\ UNCHANGED <<trace, idx>>
    /\ UNCHANGED <<args, env, dialogs, rng, model, tokenizer, chats,
                   safety_checker, safety_results, are_safe, output_text,
                   genCalls, calls>>

\* if are_safe: print the output; else: print the failing checkers' method
\* and report; then the next iteration
ReportOutput ==
    /\ pc = "output_checked"
    /\ printed' = IF are_safe
                  THEN printed \o <<Line("User input and model output deemed safe."),
                                    Shown("output", output_text),
                                    Separator>>
                  ELSE printed \o <<Line("Model output deemed unsafe.")>>
                               \o FailingReports(safety_results)
    /\ trace' = Append(trace, Event("DONE", idx, <<>>))
    /\ idx' = idx + 1
    /\ pc' = "loop"
    /\ UNCHANGED <<args, env, exitCode, dialogs, rng, model, tokenizer, chats,
                   safety_checker, safety_results, are_safe, output_text,
                   genCalls, calls>>

\* the loop is exhausted: main returns and the process ends with status 0
Finish ==
    /\ pc = "loop"
    /\ idx >= Len(chats)
    /\ Exit(0)
    /\ UNCHANGED <<args, env, dialogs, rng, model, tokenizer, chats, idx,
                   safety_checker, safety_results, are_safe, output_text, printed,
                   trace, genCalls, calls>>

Next ==
    \/ ReadPromptFile
    \/ ReadStdin
    \/ NoInput
    \/ SetSeeds
    \/ LoadModel
    \/ InputCheck
    \/ InputSafe
    \/ InputUnsafe
    \/ Generate
    \/ OutputCheck
    \/ ReportOutput
    \/ Finish

Spec == Init /\ [][Next]_vars

TypeOK ==
    /\ pc \in {"start", "seed", "load", "loop", "input_checked", "generate",
               "output_check", "output_checked", "exit"}
    /\ exitCode \in {NoExit, 0, 1}
    /\ idx \in 0..Len(chats)
    /\ pc \notin {"start", "seed", "load"} => Len(chats) = Len(dialogs)
    /\ Len(dialogs) <= MaxDialogs


(* ---------------------------------------------------------------------- *)
(* Vocabulary of the properties                                            *)
(* ---------------------------------------------------------------------- *)
LoopPcs == {"loop", "input_checked", "generate", "output_check", "output_checked"}

\* the number of checkers the flags enable
EnabledCount ==
    (IF args.enable_azure_content_safety THEN 1 ELSE 0)
    + (IF args.enable_sensitive_topics THEN 1 ELSE 0)
    + (IF args.enable_saleforce_content_safety THEN 1 ELSE 0)
    + (IF args.enable_llamaguard_content_safety THEN 1 ELSE 0)

SomeUnsafe(v) == \E j \in 1..Len(v) : ~v[j]

GenCallsFor(i) == { g \in 1..Len(genCalls) : genCalls[g].idx = i }

\* the positions of the trace that belong to dialog i, in order
StepsOf(i) == SelectSeq(trace, LAMBDA e : e.idx = i)

StepNames(i) == [k \in 1..Len(StepsOf(i)) |-> StepsOf(i)[k].ev]

IsPrefix(s, t) == Len(s) <= Len(t) /\ \A k \in 1..Len(s) : s[k] = t[k]

\* the input cannot be resolved: the prompt file is missing, or there is no
\* prompt file and stdin is a terminal or does not hold JSON
InputFails ==
    \/ args.prompt_file # None /\ ~env.exists
    \/ args.prompt_file = None /\ env.isatty
    \/ args.prompt_file = None /\ ~env.isatty /\ ~JsonLoads(env.stdin).ok

\* the run went past input resolution
Proceeded == pc \in ({"seed", "load"} \cup LoopPcs) \/ calls.load_model > 0

(* ---------------------------------------------------------------------- *)
(* C1                                                                      *)
(* ---------------------------------------------------------------------- *)
\* C1: once a checker has flagged the first turn of dialog k, the process is
\* about to exit or has exited with a non-zero status, and no generation was
\* made for dialog k or a later one; every generation follows an input
\* check of its dialog in which every enabled checker answered safe.
C1_UnsafeInputAborts ==
    /\ \A p \in 1..Len(trace) :
         (trace[p].ev = "INPUT_CHECK" /\ SomeUnsafe(trace[p].verdicts)) =>
            /\ pc \in {"input_checked", "exit"}
            /\ pc = "exit" => exitCode = 1
            /\ \A g \in 1..Len(genCalls) : genCalls[g].idx < trace[p].idx
    /\ \A g \in 1..Len(genCalls) :
         \E p \in 1..Len(trace) :
            /\ trace[p].ev = "INPUT_CHECK"
            /\ trace[p].idx = genCalls[g].idx
            /\ Len(trace[p].verdicts) = EnabledCount
            /\ ~SomeUnsafe(trace[p].verdicts)

\* the second dialog is flagged by one of several checkers after the first
\* dialog was generated; the process has exited with status 1
C1_Witness ==
    /\ pc = "exit"
    /\ exitCode = 1
    /\ Len(genCalls) = 1
    /\ trace[Len(trace) - 1].ev = "INPUT_CHECK"
    /\ trace[Len(trace) - 1].idx = 1
    /\ Len(trace[Len(trace) - 1].verdicts) >= 2
    /\ \E j \in 1..Len(trace[Len(trace) - 1].verdicts) : trace[Len(trace) - 1].verdicts[j]
    /\ SomeUnsafe(trace[Len(trace) - 1].verdicts)

(* ---------------------------------------------------------------------- *)
(* C2                                                                      *)
(* ---------------------------------------------------------------------- *)
\* C2: no dialog is ever generated twice, and when the process has ended,
\* every dialog whose input check was answered safe by all enabled checkers
\* has exactly one generation call; with no checker enabled that is every
\* dialog of the list.
C2_OneGenerationPerSafeDialog ==
    /\ \A i \in 0..(Len(dialogs) - 1) : Cardinality(GenCallsFor(i)) <= 1
    /\ pc = "exit" =>
         \A p \in 1..Len(trace) :
            (trace[p].ev = "INPUT_CHECK" /\ ~SomeUnsafe(trace[p].verdicts)) =>
               Cardinality(GenCallsFor(trace[p].idx)) = 1
    /\ (pc = "exit" /\ exitCode = 0 /\ EnabledCount = 0) =>
         \A i \in 0..(Len(dialogs) - 1) : Cardinality(GenCallsFor(i)) = 1

\* a run over two dialogs, both rated safe by at least one checker, has ended
C2_Witness ==
    /\ pc = "exit"
    /\ exitCode = 0
    /\ EnabledCount >= 1
    /\ Len(dialogs) = 2
    /\ Len(genCalls) = 2
    /\ genCalls[1].idx = 0
    /\ genCalls[2].idx = 1

(* ---------------------------------------------------------------------- *)
(* C3                                                                      *)
(* ---------------------------------------------------------------------- *)
\* C3: an output check with an unsafe verdict is never the process's last
\* step: it is followed by the DONE of its dialog and then by the input
\* check of the next dialog, and after the last dialog by exit status 0; a
\* non-zero exit after the loop started comes from an unsafe input only.
C3_UnsafeOutputContinues ==
    /\ \A p \in 1..Len(trace) :
         (trace[p].ev = "OUTPUT_CHECK" /\ SomeUnsafe(trace[p].verdicts)) =>
            /\ pc = "exit" => p < Len(trace)
            /\ p < Len(trace) =>
                 trace[p + 1] = Event("DONE", trace[p].idx, <<>>)
            /\ p + 1 < Len(trace) =>
                 /\ trace[p + 2].ev = "INPUT_CHECK"
                 /\ trace[p + 2].idx = trace[p].idx + 1
            /\ (pc = "exit" /\ trace[p].idx + 1 < Len(dialogs)) => p + 1 < Len(trace)
            /\ (pc = "exit" /\ trace[p].idx + 1 = Len(dialogs)) => exitCode = 0
    /\ (pc = "exit" /\ exitCode # 0 /\ trace # <<>>) =>
         trace[Len(trace)].ev = "UNSAFE_INPUT_ABORT"

\* both outputs of a two-dialog run were flagged, and the run ended with 0
C3_Witness ==
    /\ pc = "exit"
    /\ exitCode = 0
    /\ Len(trace) = 8
    /\ trace[3].ev = "OUTPUT_CHECK"
    /\ SomeUnsafe(trace[3].verdicts)
    /\ trace[5].ev = "INPUT_CHECK"
    /\ trace[7].ev = "OUTPUT_CHECK"
    /\ SomeUnsafe(trace[7].verdicts)

(* ---------------------------------------------------------------------- *)
(* C4                                                                      *)
(* ---------------------------------------------------------------------- *)
\* C4: after a screening (of the first turn's content or of the output
\* text) there is one result per enabled checker, in the configured order,
\* each about the screened text and carrying that checker's verdict, and the
\* aggregate is safe exactly when every verdict is safe; with no checker
\* enabled the aggregate is safe.
C4_AllCheckersRunAndAnd ==
    pc \in {"input_checked", "output_checked"} =>
       LET text == IF pc = "input_checked" THEN dialogs[idx + 1][1].content
                                           ELSE output_text
           verdicts == trace[Len(trace)].verdicts
       IN  /\ Len(verdicts) = EnabledCount
           /\ Len(safety_checker) = EnabledCount
           /\ Len(safety_results) = EnabledCount
           /\ \A i \in 1..Len(safety_results) :
                 /\ safety_results[i][1] = safety_checker[i]
                 /\ safety_results[i][2] = verdicts[i]
                 /\ safety_results[i][3].about = text
           /\ are_safe <=> ~SomeUnsafe(verdicts)
           /\ EnabledCount = 0 => are_safe

\* an output screening by three or more checkers where the first one flags
\* the text and a later one passes it
C4_Witness ==
    /\ pc = "output_checked"
    /\ Len(safety_results) >= 3
    /\ ~safety_results[1][2]
    /\ safety_results[Len(safety_results)][2]
    /\ ~are_safe

(* ---------------------------------------------------------------------- *)
(* C5                                                                      *)
(* ---------------------------------------------------------------------- *)
\* C5: when the prompt file is missing, or no prompt file is given and stdin
\* is a terminal or holds no parsable JSON (empty included), the process
\* never gets past input resolution: it exits with a non-zero status, and
\* no seeding, model or tokenizer load, screening or generation happens.
C5_InputFailureIsFatal ==
    InputFails =>
       /\ pc \in {"start", "exit"}
       /\ pc = "exit" => exitCode = 1
       /\ calls.seed = 0
       /\ calls.seed_device = 0
       /\ calls.load_model = 0
       /\ calls.load_peft = 0
       /\ calls.tokenizer = 0
       /\ trace = <<>>
       /\ genCalls = <<>>

\* empty piped stdin and no prompt file: exited with status 1
C5_Witness ==
    /\ pc = "exit"
    /\ exitCode = 1
    /\ args.prompt_file = None
    /\ ~env.isatty
    /\ env.stdin = StdinEmpty
    /\ calls.stdin = 1


(* ---------------------------------------------------------------------- *)
(* C6                                                                      *)
(* ---------------------------------------------------------------------- *)
\* the dialogs of a run that went past input resolution come from exactly
\* one source: the prompt file when a path is given (stdin is not read),
\* otherwise the parsed stdin (no file is read)
OneSource ==
    Proceeded =>
       IF args.prompt_file # None
       THEN /\ dialogs = env.file
            /\ calls.file = 1
            /\ calls.stdin = 0
       ELSE /\ JsonLoads(env.stdin).ok
            /\ dialogs = JsonLoads(env.stdin).val
            /\ calls.stdin = 1
            /\ calls.file = 0

\* C6 as stated: the resolved dialog sequence is from exactly one source and
\* is non-empty; no run is in the dialog loop with an empty dialog list.
C6_NonEmptyOneSource ==
    /\ OneSource
    /\ Proceeded => Len(dialogs) > 0
    /\ pc \in LoopPcs => Len(dialogs) > 0

\* C6 amended: the resolved dialog sequence is from exactly one source (the
\* prompt file when a path is given, stdin then not read; otherwise the
\* parsed stdin); it may be empty, and then the loop body never runs and the
\* process ends with status 0 without a screening or a generation.
C6_OneSourcePossiblyEmpty ==
    /\ OneSource
    /\ (Proceeded /\ dialogs = <<>>) =>
          /\ trace = <<>>
          /\ genCalls = <<>>
          /\ pc = "exit" => exitCode = 0

\* a prompt file holding an empty list is given while a non-empty list is
\* piped on stdin: the run has ended with status 0 on the file's empty list
C6_Witness ==
    /\ pc = "exit"
    /\ exitCode = 0
    /\ args.prompt_file # None
    /\ ~env.isatty
    /\ JsonLoads(env.stdin).ok
    /\ JsonLoads(env.stdin).val # <<>>
    /\ dialogs = <<>>
    /\ calls.load_model = 1

(* ---------------------------------------------------------------------- *)
(* C7                                                                      *)
(* ---------------------------------------------------------------------- *)
\* C7: the steps of each dialog are a prefix of INPUT_CHECK, GENERATE,
\* OUTPUT_CHECK, DONE or are INPUT_CHECK, UNSAFE_INPUT_ABORT; the steps of
\* the run are in list order, and a step of a later dialog is preceded by
\* the DONE of every earlier dialog.
C7_DialogStatePath ==
    /\ \A i \in 0..(Len(dialogs) - 1) :
          \/ IsPrefix(StepNames(i), <<"INPUT_CHECK", "GENERATE", "OUTPUT_CHECK", "DONE">>)
          \/ StepNames(i) = <<"INPUT_CHECK", "UNSAFE_INPUT_ABORT">>
    /\ \A p \in 1..Len(trace) : trace[p].idx \in 0..(Len(dialogs) - 1)
    /\ \A p \in 1..Len(trace), q \in 1..Len(trace) :
          p < q => trace[p].idx <= trace[q].idx
    /\ \A q \in 1..Len(trace) :
          \A i \in 0..(trace[q].idx - 1) :
             \E p \in 1..(q - 1) : trace[p] = Event("DONE", i, <<>>)

\* the first dialog went through all four steps and the second was aborted
C7_Witness ==
    /\ pc = "exit"
    /\ StepNames(0) = <<"INPUT_CHECK", "GENERATE", "OUTPUT_CHECK", "DONE">>
    /\ StepNames(1) = <<"INPUT_CHECK", "UNSAFE_INPUT_ABORT">>

(* ---------------------------------------------------------------------- *)
(* C8                                                                      *)
(* ---------------------------------------------------------------------- *)
IsUnsafeResult(r) == ~r[2]

\* what the step after an output check prints: the output text when every
\* verdict is safe; otherwise the banner followed by method and report of
\* the failing checkers only, in the configured order, and no text
OutputReportOK(new) ==
    LET fail == SelectSeq(safety_results, IsUnsafeResult)
    IN  IF fail = <<>>
        THEN /\ Len(new) = 3
             /\ new[2].kind = "output"
             /\ new[2].text = output_text
             /\ \A k \in 1..Len(new) : new[k].kind \notin {"method", "report"}
        ELSE /\ Len(new) = 1 + 2 * Len(fail)
             /\ new[1] = Line("Model output deemed unsafe.")
             /\ \A k \in 1..Len(new) : new[k].kind \notin {"output", "prompt"}
             /\ \A j \in 1..Len(fail) :
                   /\ new[2 * j].kind = "method"
                   /\ new[2 * j].str = fail[j][1]
                   /\ new[2 * j + 1].kind = "report"
                   /\ new[2 * j + 1].str = fail[j][1]
                   /\ new[2 * j + 1].text = output_text

\* C8: the step that follows an output check prints the output text if and
\* only if every checker rated it safe; otherwise it prints no text but the
\* method and report of exactly the failing checkers, in configured order.
C8_OutputPrinting ==
    [][pc = "output_checked" =>
          OutputReportOK(SubSeq(printed', Len(printed) + 1, Len(printed')))]_vars

\* an output flagged by some but not all of three or more checkers was
\* reported and the loop went on
C8_Witness ==
    /\ pc = "loop"
    /\ idx >= 1
    /\ Len(safety_results) >= 3
    /\ ~are_safe
    /\ \E i \in 1..Len(safety_results) : safety_results[i][2]
    /\ printed[Len(printed)].kind = "report"

(* ---------------------------------------------------------------------- *)
(* C9                                                                      *)
(* ---------------------------------------------------------------------- *)
SamplingNames ==
    {"max_new_tokens", "min_new_tokens", "do_sample", "top_p", "temperature",
     "top_k", "repetition_penalty", "length_penalty", "use_cache"}

\* C9: every generation call is passed all nine configured sampling
\* parameters with the values of the command line, the same for every
\* dialog.
C9_AllSamplingParametersPassed ==
    \A g \in 1..Len(genCalls) :
       /\ SamplingNames \subseteq DOMAIN genCalls[g].kwargs
       /\ \A n \in SamplingNames : genCalls[g].kwargs[n] = args[n]
       /\ genCalls[g].kwargs = genCalls[1].kwargs

(* ---------------------------------------------------------------------- *)
(* C10                                                                     *)
(* ---------------------------------------------------------------------- *)
\* C10: the seeding and the loads never run twice; once the loop is entered
\* (and until the process ends) each has run exactly once, the RNG carries
\* the configured seed and the model handle is the one loaded at startup;
\* every generation uses that handle, the first one starts from the freshly
\* seeded RNG and each later one from the RNG state its predecessor left.
C10_SeedAndLoadOnce ==
    /\ calls.seed <= 1 /\ calls.seed_device <= 1
    /\ calls.load_model <= 1 /\ calls.tokenizer <= 1 /\ calls.load_peft <= 1
    /\ (~InputFails /\ pc \in (LoopPcs \cup {"exit"})) =>
          /\ calls.seed = 1 /\ calls.seed_device = 1
          /\ calls.load_model = 1 /\ calls.tokenizer = 1
          /\ rng.seed = args.seed
          /\ model.name = args.model_name /\ model.peft = args.peft_model
          /\ tokenizer = args.model_name
    /\ trace # <<>> => calls.seed = 1 /\ calls.load_model = 1 /\ calls.tokenizer = 1
    /\ \A g \in 1..Len(genCalls) :
          /\ genCalls[g].model = model
          /\ genCalls[g].rng = IF g = 1 THEN [seed |-> args.seed, draws |-> 0]
                                        ELSE genCalls[g - 1].rngAfter
    /\ genCalls # <<>> => rng = genCalls[Len(genCalls)].rngAfter

\* the second generation of a sampling run started from the RNG state the
\* first one left, on the adapter-wrapped model
C10_Witness ==
    /\ pc = "exit"
    /\ Len(genCalls) = 2
    /\ genCalls[2].rng.draws = 1
    /\ genCalls[2].model.peft = "adapter"

====
